---- MODULE Spec2Model ----
(***************************************************************************)
(* A model of languru's TransformersAction (src/languru/action/hf.py): the *)
(* chat and text_completion operations of the local-model adapter, with    *)
(* the generation loop they drive and the stop-word criteria attached to   *)
(* it.                                                                     *)
(*                                                                         *)
(* Text is a sequence of units. A unit is one character ("a", "b", "\n",   *)
(* " ", ":"), a role name ("user", "tool", ...) standing for its           *)
(* characters, or a special-token string ("<s>", "</s>"). A token is an    *)
(* index into Vocab; a token decodes to one or more units.                 *)
(***************************************************************************)
EXTENDS Integers, Sequences, FiniteSets, TLC

(***************************************************************************)
(* Bounds of the model.                                                    *)
(***************************************************************************)
\* Longest message list a chat call is given.
MaxMessages == 2
\* Number of generation steps in which the model may emit any token of
\* GenTokens; after that a model with an end-of-sequence token ends the
\* sequence and a model without one repeats FillerToken.
MaxVaried == 3
\* The tokenizer's model_max_length: with truncation=True a longer input is
\* cut to this many tokens.
ModelMaxLength == 3
\* Longest list of texts an embeddings call is given.
MaxInputs == 2
\* Number of requests the server is sent.
MaxRequests == 2

(***************************************************************************)
(* Program constants.                                                      *)
(***************************************************************************)
\* hf.py:258  kwargs["max_length"] = max_length = inputs_tokens_length + 20
Slack == 20

(***************************************************************************)
(* Text: Python str operations used by the adapter.                        *)
(***************************************************************************)
\* s occurs in t starting at index i (1-based).
OccursAt(t, s, i) ==
    /\ i >= 1
    /\ i + Len(s) - 1 <= Len(t)
    /\ \A k \in 1..Len(s) : t[i + k - 1] = s[k]

\* Python `s in t`: the empty string occurs in every string.
Contains(t, s) == \E i \in 1..(Len(t) - Len(s) + 1) : OccursAt(t, s, i)

\* Python t.endswith(s).
EndsWith(t, s) == Len(s) <= Len(t) /\ OccursAt(t, s, Len(t) - Len(s) + 1)

\* Index of the leftmost occurrence of s in t (0 when there is none).
FindFirst(t, s) ==
    IF Contains(t, s)
    THEN CHOOSE i \in 1..(Len(t) - Len(s) + 1) :
            /\ OccursAt(t, s, i)
            /\ \A j \in 1..(i - 1) : ~OccursAt(t, s, j)
    ELSE 0

\* t with the Len(s) units starting at index i cut out.
CutAt(t, s, i) == SubSeq(t, 1, i - 1) \o SubSeq(t, i + Len(s), Len(t))

\* Python t.replace(old, "", 1): the leftmost occurrence of old removed.
ReplaceFirst(t, old) ==
    IF Len(old) = 0 \/ ~Contains(t, old) THEN t ELSE CutAt(t, old, FindFirst(t, old))

\* Python str.isspace() of one unit.
IsSpace(u) == u \in {"\n", " "}

\* Number of whitespace units at the start of t.
RECURSIVE LeadingSpaces(_)
LeadingSpaces(t) ==
    IF Len(t) = 0 \/ ~IsSpace(Head(t)) THEN 0 ELSE 1 + LeadingSpaces(Tail(t))

\* Number of whitespace units at the end of t.
RECURSIVE TrailingSpaces(_)
TrailingSpaces(t) ==
    IF Len(t) = 0 \/ ~IsSpace(t[Len(t)]) THEN 0
    ELSE 1 + TrailingSpaces(SubSeq(t, 1, Len(t) - 1))

\* Python t.strip().
Strip(t) ==
    IF LeadingSpaces(t) = Len(t) THEN <<>>
    ELSE SubSeq(t, LeadingSpaces(t) + 1, Len(t) - TrailingSpaces(t))

\* Python re.sub(rf"\s*{re.escape(tok)}\s*", "", t): every occurrence of the
\* unit tok is removed together with the whitespace runs on both sides of it.
RECURSIVE RegexSubToken(_, _)
RegexSubToken(t, tok) ==
    IF ~Contains(t, <<tok>>) THEN t
    ELSE LET p      == FindFirst(t, <<tok>>)
             before == SubSeq(t, 1, p - 1)
             after  == SubSeq(t, p + 1, Len(t))
         IN  SubSeq(before, 1, Len(before) - TrailingSpaces(before))
                \o RegexSubToken(SubSeq(after, LeadingSpaces(after) + 1, Len(after)), tok)

(***************************************************************************)
(* The tokenizer. Token ids are indices into Vocab; a token decodes to the *)
(* units of its entry. Two entries are merges of several units, as in a    *)
(* byte-pair vocabulary, so that decoding is not one unit per token.       *)
(***************************************************************************)
Vocab ==
    << <<"<s>">>, <<"</s>">>, <<"a">>, <<"b">>, <<"\n">>, <<" ">>, <<":">>,
       <<"user">>, <<"assistant">>, <<"system">>, <<"bot">>, <<"tool">>,
       <<"a", "a">>, <<"\n", "user", ":">> >>

\* tokenizer.bos_token and tokenizer.eos_token, as strings.
BosToken == "<s>"
EosToken == "</s>"

\* The token whose decoding is exactly the text u.
TokenOf(u) == CHOOSE i \in 1..Len(Vocab) : Vocab[i] = u

\* tokenizer.eos_token_id of a tokenizer that has an end-of-sequence token.
EosTokenId == TokenOf(<<EosToken>>)

\* tokenizer.decode(ids) / tokenizer.batch_decode(outputs)[0]: special tokens
\* are kept in the decoded text.
RECURSIVE Decode(_)
Decode(ids) == IF Len(ids) = 0 THEN <<>> ELSE Vocab[Head(ids)] \o Decode(Tail(ids))

\* tokenizer(text)["input_ids"]: greedy longest match against the vocabulary.
\* The entries of the vocabulary that merge several units.
Merges == {i \in 1..Len(Vocab) : Len(Vocab[i]) > 1}

RECURSIVE Encode(_)
Encode(t) ==
    IF Len(t) = 0 THEN <<>>
    ELSE LET fits == {i \in Merges : OccursAt(t, Vocab[i], 1)}
             best == IF fits = {} THEN TokenOf(<<Head(t)>>)
                     ELSE CHOOSE i \in fits : \A j \in fits : Len(Vocab[j]) <= Len(Vocab[i])
         IN  <<best>> \o Encode(SubSeq(t, Len(Vocab[best]) + 1, Len(t)))

(***************************************************************************)
(* The stop argument. A caller passes a list of strings, one string, or a  *)
(* value of another shape (None, a number, a set).                         *)
(***************************************************************************)
StopList(items) == [shape |-> "list", items |-> items]
StopStr(text)   == [shape |-> "str", items |-> <<text>>]
StopOther       == [shape |-> "other", items |-> <<>>]

\* Python iteration over the stop value (`for stop_word in stop`, `list(stop)`):
\* a list yields its elements, a string yields its characters.
IterStop(stop) ==
    IF stop.shape = "str"
    THEN [i \in 1..Len(stop.items[1]) |-> <<stop.items[1][i]>>]
    ELSE stop.items

\* languru.utils.common.must_list: a list is itself, a single value becomes a
\* one-element list.
must_list(stop) == stop.items

\* The elements of a sequence that satisfy a non-emptiness test, in order.
RECURSIVE NonEmpty(_)
NonEmpty(ts) ==
    IF Len(ts) = 0 THEN <<>>
    ELSE (IF Len(Head(ts)) > 0 THEN <<Head(ts)>> ELSE <<>>) \o NonEmpty(Tail(ts))

(***************************************************************************)
(* chat: prompt and stop words (hf.py:121-159).                            *)
(***************************************************************************)
\* A message: its role, and its content when the key is present and not None.
Msg(role, has, content) == [role |-> role, has |-> has, content |-> content]

\* FallbackBlocks that does not strip the prompt after an append.
RECURSIVE FallbackBlocks_NoStrip(_, _)
FallbackBlocks_NoStrip(prompt, messages) ==
    IF Len(messages) = 0 THEN prompt
    ELSE LET m == Head(messages)
         IN  FallbackBlocks_NoStrip(
                 IF m.has
                 THEN prompt \o <<"\n", "\n", m.role, ":", "\n">> \o m.content
                 ELSE prompt,
                 Tail(messages))

\* hf.py:123-128  the loop over the messages, from the prompt built so far.
RECURSIVE FallbackBlocks(_, _)
FallbackBlocks(prompt, messages) ==
    IF Len(messages) = 0 THEN prompt
    ELSE LET m == Head(messages)
             appended == IF m.has
                         THEN prompt \o <<"\n", "\n", m.role, ":", "\n">> \o m.content
                         ELSE prompt
         IN  FallbackBlocks(Strip(appended), Tail(messages))

\* hf.py:123-128  the prompt before the emptiness test.
FallbackBody(messages) == Strip(FallbackBlocks(<<>>, messages))

\* hf.py:131
AssistantCue == <<"\n", "\n", "assistant", ":", "\n">>

\* hf.py:136
BaselineRoles == {"assistant", "bot", "user", "system"}

\* RolesOf that collects the roles of the messages with content only.
RolesOf_ContentOnly(messages) ==
    {messages[i].role : i \in {j \in 1..Len(messages) : messages[j].has}}
        \cup BaselineRoles

\* hf.py:134-137
RolesOf(messages) == {messages[i].role : i \in 1..Len(messages)} \cup BaselineRoles

\* hf.py:146  f"\n{role}:"
RoleStop(role) == <<"\n", role, ":">>

\* hf.py:138-145  the caller's stop words as a list of non-empty strings.
NormalizeStop(stop) ==
    NonEmpty(IF stop.shape = "str" THEN stop.items
             ELSE IF stop.shape = "list" THEN IterStop(stop)
             ELSE <<>>)

\* The ranks that fix the two iteration orders of the role set that are modelled.
RoleRank(role) ==
    CASE role = "assistant" -> 1 [] role = "bot" -> 2 [] role = "system" -> 3
      [] role = "tool" -> 4 [] role = "user" -> 5

\* The roles of a set as a sequence, by rising rank.
RECURSIVE Ascending(_)
Ascending(roles) ==
    IF roles = {} THEN <<>>
    ELSE LET r == CHOOSE x \in roles : \A y \in roles : RoleRank(x) <= RoleRank(y)
         IN  <<r>> \o Ascending(roles \ {r})

Reverse(s) == [i \in 1..Len(s) |-> s[Len(s) + 1 - i]]

\* Iteration orders of the Python set `roles`: the order is not specified by
\* the language; two of the possible orders are modelled.
RoleOrders(roles) == {Ascending(roles), Reverse(Ascending(roles))}

\* hf.py:146  stop.extend([f"\n{role}:" for role in roles]), for one order.
FallbackStop(stop, order) ==
    StopList(NormalizeStop(stop) \o [i \in 1..Len(order) |-> RoleStop(order[i])])

\* hf.py:138-145  whether the local `stop` is still the caller's object when
\* the role stops are appended: every branch of the normalisation, and the
\* filter after it, binds `stop` to a list built in chat.
StopAliasesCaller(stop) == FALSE

\* hf.py:146  the caller's stop object after stop.extend(...): the role stops
\* are appended to the object the local `stop` is bound to.
CallerStopAfterExtend(stop, order) ==
    IF StopAliasesCaller(stop)
    THEN StopList(stop.items \o [i \in 1..Len(order) |-> RoleStop(order[i])])
    ELSE stop

\* hf.py:149-156  tokenizer.apply_chat_template, for the template modelled:
\* a line "role:content" per message with content, then the generation prompt.
\* The "blank" template renders nothing.
RECURSIVE TemplateLines(_)
TemplateLines(messages) ==
    IF Len(messages) = 0 THEN <<>>
    ELSE (IF Head(messages).has
          THEN <<Head(messages).role, ":">> \o Head(messages).content \o <<"\n">>
          ELSE <<>>) \o TemplateLines(Tail(messages))

apply_chat_template(template, messages) ==
    IF template = "blank" THEN <<>>
    ELSE TemplateLines(messages) \o <<"assistant", ":">>

(***************************************************************************)
(* text_completion: parameters, stop criteria, finish (hf.py:197-288).     *)
(***************************************************************************)
\* An optional integer keyword argument: absent (or None), or a value.
NoneInt   == [has |-> FALSE, val |-> 0]
SomeInt(n) == [has |-> TRUE, val |-> n]

\* Python truthiness of an optional integer.
Truthy(x) == x.has /\ x.val # 0

\* hf.py:219  kwargs.get("max_tokens") or kwargs.get("max_length") or None
RequestedMaxLength(max_tokens, max_length_kw) ==
    IF Truthy(max_tokens) THEN max_tokens
    ELSE IF Truthy(max_length_kw) THEN max_length_kw
    ELSE NoneInt

\* hf.py:220-223  the max_length before the prompt is tokenized.
InitialMaxLength(max_tokens, max_length_kw, default_max_tokens) ==
    IF RequestedMaxLength(max_tokens, max_length_kw).has
    THEN RequestedMaxLength(max_tokens, max_length_kw).val
    ELSE default_max_tokens

\* NeedsWidening with a strict comparison.
NeedsWidening_Strict(inputs_tokens_length, max_length) == inputs_tokens_length > max_length

\* hf.py:252  the test that widens max_length.
NeedsWidening(inputs_tokens_length, max_length) == inputs_tokens_length >= max_length

\* EffectiveMaxLength with the slack added to the requested max_length.
EffectiveMaxLength_FromRequest(inputs_tokens_length, max_length) ==
    IF NeedsWidening(inputs_tokens_length, max_length)
    THEN max_length + Slack
    ELSE max_length

\* hf.py:251-258  kwargs["max_length"] as handed to the generation call.
EffectiveMaxLength(inputs_tokens_length, max_length) ==
    IF NeedsWidening(inputs_tokens_length, max_length)
    THEN inputs_tokens_length + Slack
    ELSE max_length

\* hf.py:232-234  must_list(self.stop_words) + must_list(kwargs.pop("stop", ()))
TotalStopWords(stop_words, stop) == must_list(stop_words) \o must_list(stop)

\* hf.py:224-231  the keyword arguments text_completion pops before the
\* generation call, in the order of the pops.
IgnoredParams ==
    <<"max_tokens", "best_of", "echo", "n", "frequency_penalty",
      "presence_penalty", "stream", "logprobs">>

\* Python kwargs.pop(key, None) on a dict, as the dict that is left.
Pop(kw, key) == [k \in (DOMAIN kw) \ {key} |-> kw[k]]

\* PopAll that pops the first key only.
PopAll_FirstOnly(kw, keys) == IF Len(keys) = 0 THEN kw ELSE Pop(kw, Head(keys))

\* hf.py:224-231  the pops, one after the other.
RECURSIVE PopAll(_, _)
PopAll(kw, keys) ==
    IF Len(keys) = 0 THEN kw ELSE PopAll(Pop(kw, Head(keys)), Tail(keys))

\* A dict without keys.
NoKwargs == [k \in {} |-> 0]

\* The **kwargs of a text_completion call without its stop entry: the
\* caller's other keyword arguments with max_tokens and max_length when they
\* were given.
CallKwargs(extra, max_tokens, max_length_kw) ==
    [k \in (DOMAIN extra)
            \cup (IF max_tokens.has THEN {"max_tokens"} ELSE {})
            \cup (IF max_length_kw.has THEN {"max_length"} ELSE {}) |->
        IF k = "max_tokens" THEN max_tokens.val
        ELSE IF k = "max_length" THEN max_length_kw.val
        ELSE extra[k]]

\* hf.py:219-261  the kwargs of self.model.generate(input_ids, **kwargs): what
\* the pops left, with max_length set and the criteria list when there is
\* one (1 stands for the list object).
GenerateKwargs(extra, max_tokens, max_length_kw, max_length, has_criteria) ==
    LET kept == PopAll(CallKwargs(extra, max_tokens, max_length_kw), IgnoredParams)
        keys == (DOMAIN kept) \cup {"max_length"}
                    \cup (IF has_criteria THEN {"stopping_criteria"} ELSE {})
    IN  [k \in keys |->
            IF k = "max_length" THEN max_length
            ELSE IF k = "stopping_criteria" THEN 1
            ELSE kept[k]]

\* StaticStopWordsAfter for a concatenation in place.
StaticStopWordsAfter_InPlace(stop_words, stop) ==
    StopList(must_list(stop_words) \o must_list(stop))

\* hf.py:232-234  self.stop_words after total_stop_words was built: `+`
\* builds a new list and leaves its operands as they are.
StaticStopWordsAfter(stop_words, stop) == stop_words

\* StopAtWordsStoppingCriteria.from_stop_words: the state of the criteria
\* object built for a call: no stop reason, no matched stop string.
NewStopState == [stop_reason |-> "", matched |-> <<>>]

\* The last k tokens of a sequence (all of it when it is shorter).
TailTokens(ids, k) ==
    IF k >= Len(ids) THEN ids ELSE SubSeq(ids, Len(ids) - k + 1, Len(ids))

\* StopAtWordsStoppingCriteria.from_stop_words: the stop strings tokenized
\* when the criteria object is built.
StopWordsIds(words) == [i \in 1..Len(words) |-> Encode(words[i])]

\* StopAtWordsStoppingCriteria: one stop string, with its tokens, against the
\* sequence so far. The tail decoded has the stop string's own token length,
\* then one more.
WordMatches(word, word_ids, ids) ==
    \E plus \in {0, 1} :
        Contains(Decode(TailTokens(ids, Len(word_ids) + plus)), word)

\* StopAtWordsStoppingCriteria.__call__: index of the first stop string that
\* matches (0 when none does).
StopMatch(words, words_ids, ids) ==
    LET hits == {i \in 1..Len(words) : WordMatches(words[i], words_ids[i], ids)}
    IN  IF hits = {} THEN 0 ELSE CHOOSE i \in hits : \A j \in hits : i <= j

\* languru.utils.hf.remove_special_tokens: the special-token strings removed.
remove_special_tokens(t) ==
    SelectSeq(t, LAMBDA u : u \notin {BosToken, EosToken})

\* hf.py:448-458  remove_echo_text
remove_echo_text(prompt, completed_text, has_eos) ==
    LET p1 == IF has_eos THEN RegexSubToken(prompt, EosToken) ELSE prompt
        c1 == IF has_eos THEN RegexSubToken(completed_text, EosToken) ELSE completed_text
        p2 == RegexSubToken(p1, BosToken)
        c2 == RegexSubToken(c1, BosToken)
    IN  remove_special_tokens(ReplaceFirst(c2, p2))

\* FinishReason that never asks the criteria object.
FinishReason_IgnoresCriteria(has_criteria, stop_reason, has_eos, outputs) ==
    IF has_eos /\ outputs[Len(outputs)] = EosTokenId THEN "stop" ELSE "length"

\* hf.py:269-277  finish_reason, from whether a criteria object was attached,
\* its get_stop_reason() ("" for None), and the last output token.
FinishReason(has_criteria, stop_reason, has_eos, outputs) ==
    IF has_criteria
    THEN (IF stop_reason # "" THEN stop_reason ELSE "length")
    ELSE IF has_eos /\ outputs[Len(outputs)] = EosTokenId THEN "stop"
    ELSE "length"

\* Usage with the whole sequence counted as completion tokens.
Usage_NoSubtraction(outputs_tokens_length, inputs_tokens_length) ==
    [total_tokens      |-> outputs_tokens_length,
     prompt_tokens     |-> inputs_tokens_length,
     completion_tokens |-> outputs_tokens_length]

\* hf.py:282-286  CompletionUsage
Usage(outputs_tokens_length, inputs_tokens_length) ==
    [total_tokens      |-> outputs_tokens_length,
     prompt_tokens     |-> inputs_tokens_length,
     completion_tokens |-> outputs_tokens_length - inputs_tokens_length]

(***************************************************************************)
(* chat: the trim of a stop word from the completion (hf.py:176-184).      *)
(***************************************************************************)
\* languru.utils.common.replace_right(text, old=old, new="", occurrence=1):
\* old removed where it is right-aligned in text.
replace_right(text, old) ==
    IF EndsWith(text, old) THEN SubSeq(text, 1, Len(text) - Len(old)) ELSE text

\* ChatTrim that goes on trimming after a stop word was removed.
RECURSIVE ChatTrim_Repeated(_, _)
ChatTrim_Repeated(message_text, stops) ==
    IF Len(stops) = 0 THEN message_text
    ELSE IF replace_right(message_text, Head(stops)) # message_text
         THEN ChatTrim_Repeated(replace_right(message_text, Head(stops)), stops)
         ELSE ChatTrim_Repeated(message_text, Tail(stops))

\* ChatTrim that leaves the loop after the first stop word, removed or not.
ChatTrim_FirstOnly(message_text, stops) ==
    IF Len(stops) = 0 THEN message_text
    ELSE replace_right(message_text, Head(stops))

\* hf.py:177-184  the loop over the stop words: the first one whose removal
\* changes the text is removed, and the loop breaks.
RECURSIVE ChatTrim(_, _)
ChatTrim(message_text, stops) ==
    IF Len(stops) = 0 THEN message_text
    ELSE IF replace_right(message_text, Head(stops)) # message_text
         THEN replace_right(message_text, Head(stops))
         ELSE ChatTrim(message_text, Tail(stops))

(***************************************************************************)
(* embeddings (hf.py:290-335).                                             *)
(***************************************************************************)
\* The input of an embeddings call: one text, or a list of texts.
OneText(text)   == [shape |-> "str", texts |-> <<text>>]
TextList(texts) == [shape |-> "list", texts |-> texts]

\* tokenizer.pad_token_id: the id that fills the shorter rows of a batch. It
\* is no index of Vocab.
PadTokenId == 0

\* hf.py:301-303  truncation=True: the tokens of one text, cut to the
\* tokenizer's model_max_length.
Truncate(ids) ==
    IF Len(ids) > ModelMaxLength THEN SubSeq(ids, 1, ModelMaxLength) ELSE ids

\* hf.py:301-303  the rows of the batch before padding.
BatchRows(input) == [i \in 1..Len(input.texts) |-> Truncate(Encode(input.texts[i]))]

\* The sum of the elements of a sequence of numbers.
RECURSIVE SumSeq(_)
SumSeq(ns) == IF Len(ns) = 0 THEN 0 ELSE Head(ns) + SumSeq(Tail(ns))

\* SeqLength that adds up the lengths of the rows.
SeqLength_Sum(rows) == SumSeq([i \in 1..Len(rows) |-> Len(rows[i])])

\* hf.py:301-306  padding=True: input_ids.shape[1], the length of the longest
\* row of the batch.
SeqLength(rows) ==
    CHOOSE n \in {Len(rows[i]) : i \in 1..Len(rows)} :
        \A i \in 1..Len(rows) : Len(rows[i]) <= n

\* hf.py:301-303  inputs["input_ids"] and inputs["attention_mask"]: every row
\* padded on the right to the batch's sequence length.
PaddedIds(rows) ==
    [i \in 1..Len(rows) |->
        [k \in 1..SeqLength(rows) |->
            IF k <= Len(rows[i]) THEN rows[i][k] ELSE PadTokenId]]

AttentionMask(rows) ==
    [i \in 1..Len(rows) |->
        [k \in 1..SeqLength(rows) |-> IF k <= Len(rows[i]) THEN 1 ELSE 0]]

\* hf.py:308-310  output.last_hidden_state of the forward pass: one vector
\* for each position of each row, padding positions included. The model of
\* the forward pass gives the vector <<token id + 1, position>>.
LastHiddenState(padded) ==
    [i \in 1..Len(padded) |->
        [k \in 1..Len(padded[i]) |-> <<padded[i][k] + 1, k>>]]

\* The width of the vectors of LastHiddenState.
HiddenWidth(hidden) == Len(hidden[1][1])

\* languru.utils.calculation.mean_pooling: for each row, the hidden vectors
\* weighted by the attention mask, summed over the positions and divided by
\* the sum of the weights. A component is kept as the fraction num / den.
mean_pooling(hidden, mask) ==
    [i \in 1..Len(hidden) |->
        [d \in 1..HiddenWidth(hidden) |->
            [num |-> SumSeq([k \in 1..Len(hidden[i]) |-> hidden[i][k][d] * mask[i][k]]),
             den |-> SumSeq(mask[i])]]]

\* hf.py:298-335  the CreateEmbeddingResponse of an embeddings call.
EmbeddingsOf(model_name, input) ==
    LET rows       == BatchRows(input)
        embeddings == mean_pooling(LastHiddenState(PaddedIds(rows)), AttentionMask(rows))
    IN  [present |-> TRUE,
         data    |-> [i \in 1..Len(embeddings) |->
                        [embedding |-> embeddings[i], index |-> i - 1]],
         model   |-> model_name,
         usage   |-> [total_tokens |-> SeqLength(rows), prompt_tokens |-> SeqLength(rows)]]

\* No CreateEmbeddingResponse returned.
NoEmbeddings ==
    [present |-> FALSE, data |-> <<>>, model |-> "",
     usage |-> [total_tokens |-> 0, prompt_tokens |-> 0]]

(***************************************************************************)
(* Inputs of the model.                                                    *)
(***************************************************************************)
\* The adapters: the loaded model's name, the tokenizer's chat template
\* ("none": tokenizer.chat_template is None), the static stop_words, whether
\* the tokenizer has an end-of-sequence token, and ActionBase's
\* default_max_tokens.
Adapters ==
    [model_name : {"m1"},
     chat_template : {"none", "std"},
     stop_words : {StopList(<<>>), StopList(<< <<"b">> >>)},
     has_eos : BOOLEAN,
     default_max_tokens : {12}]
    \cup
    [model_name : {"m1"},
     chat_template : {"blank"},
     stop_words : {StopList(<<>>)},
     has_eos : {TRUE},
     default_max_tokens : {12}]

\* The messages a chat call is built from.
MessageValues ==
    {Msg("user", TRUE, <<"a">>), Msg("user", TRUE, <<>>),
     Msg("tool", FALSE, <<>>), Msg("tool", TRUE, <<"a", "\n">>)}

MessageLists == UNION {[1..n -> MessageValues] : n \in 0..MaxMessages}

\* The stop arguments of a call.
StopArgs ==
    {StopList(<<>>), StopList(<< <<"a">> >>), StopList(<< <<>>, <<":">>, <<"a">> >>),
     StopStr(<<"a", "b">>), StopOther}

\* The prompts of a direct text_completion call.
PromptValues == {<<>>, <<"a">>, <<"b", "\n", "</s>">>}

\* The requested model names.
ModelValues == {"m1", "m2"}

\* The (max_tokens, max_length) keyword pairs of a call.
BudgetArgs ==
    {<<NoneInt, NoneInt>>, <<SomeInt(9), NoneInt>>, <<SomeInt(0), SomeInt(3)>>}

\* The (stop, model, budget) arguments of a call: every stop argument with
\* every budget for the loaded model's name, and every stop argument with the
\* default budget for another name.
OtherArgs ==
    (StopArgs \X {"m1"} \X BudgetArgs)
    \cup (StopArgs \X (ModelValues \ {"m1"}) \X {<<NoneInt, NoneInt>>})

\* The arguments of the chat calls: every message list with the other
\* arguments at their defaults, and two message lists with every combination
\* of OtherArgs.
ChatArgs ==
    (MessageLists \X {<<StopList(<<>>), "m1", <<NoneInt, NoneInt>>>>})
    \cup
    ({<<Msg("user", TRUE, <<"a">>)>>,
      <<Msg("tool", FALSE, <<>>), Msg("user", TRUE, <<"a">>)>>} \X OtherArgs)

\* The arguments of the direct text_completion calls.
TextCompletionArgs == PromptValues \X OtherArgs

\* The other keyword arguments of a call (values are numbers; 1 and 0 stand
\* for True and False): none, n alone, and every parameter text_completion
\* pops together with one it does not know.
ExtraKwargs ==
    {NoKwargs,
     [k \in {"n"} |-> 3],
     [k \in {"best_of", "echo", "n", "frequency_penalty", "presence_penalty",
              "stream", "logprobs", "temperature"} |-> 2]}

\* The chat calls: the arguments of ChatArgs without other keyword arguments,
\* one message list with every value of ExtraKwargs, and one call whose stop
\* word is the line feed, the last character of the fallback prompt.
ChatCalls ==
    (ChatArgs \X {NoKwargs})
    \cup
    ({<<<<Msg("user", TRUE, <<"a">>)>>,
        <<StopList(<<>>), "m1", <<SomeInt(9), NoneInt>>>>>>} \X ExtraKwargs)
    \cup
    {<<<<<<Msg("user", TRUE, <<"a">>)>>,
         <<StopList(<< <<"\n">> >>), "m1", <<NoneInt, NoneInt>>>>>>, NoKwargs>>}

\* The direct text_completion calls, likewise.
TextCompletionCalls ==
    (TextCompletionArgs \X {NoKwargs})
    \cup
    ({<<<<"a">>, <<StopList(<<>>), "m1", <<SomeInt(9), NoneInt>>>>>>} \X ExtraKwargs)

\* The texts an embeddings call is given: of one token, of two tokens (the
\* first a merge), and of more tokens than the tokenizer keeps.
EmbeddingTexts ==
    {<<"a">>, <<"a", "a", "b">>, <<"b", "a", "b", "a", "b", "a">>}

\* The inputs of the embeddings calls: a text, or a list of one to MaxInputs
\* texts.
EmbeddingInputs ==
    {OneText(t) : t \in EmbeddingTexts}
    \cup {TextList(ts) : ts \in UNION {[1..n -> EmbeddingTexts] : n \in 1..MaxInputs}}

\* The tokens the model may emit at a step.
GenTokens(has_eos) ==
    {TokenOf(<<"a">>), TokenOf(<<"a", "a">>), TokenOf(<<"\n", "user", ":">>)}
        \cup (IF has_eos THEN {EosTokenId} ELSE {})

\* The token a model without an end-of-sequence token repeats once it has
\* emitted MaxVaried tokens.
FillerToken == TokenOf(<<"b">>)

(***************************************************************************)
(* State.                                                                  *)
(***************************************************************************)
VARIABLES
    self,            \* the adapter: a record of Adapters
    pc,              \* "idle", "generating", "generated", "done", "raised",
                     \* "embedded"
    entry,           \* the public operation called: "chat",
                     \* "text_completion", "embeddings"
    messages,        \* chat: the caller's messages
    stop_arg,        \* the caller's stop argument, as it was passed
    caller_stop,     \* the caller's stop object, as it is now
    model,           \* the requested model name
    max_tokens,      \* the caller's max_tokens keyword
    max_length_kw,   \* the caller's max_length keyword
    kwargs,          \* the caller's other keyword arguments
    prompt,          \* text_completion: prompt
    stop,            \* chat: the local `stop` after hf.py:121-146
    total_stop_words,\* text_completion: total_stop_words
    has_criteria,    \* text_completion: stop_criteria is not None
    stop_words_ids,  \* the criteria object's tokenized stop strings
    stop_reason,     \* the criteria object's stop reason ("" for None)
    matched,         \* the criteria object's matched stop string
    consulted,       \* times the criteria object was called in this call
    input_ids,       \* text_completion: the prompt's tokens
    max_length,      \* kwargs["max_length"] handed to generate
    gen_kwargs,      \* the kwargs handed to generate
    outputs,         \* the sequence generate has built so far
    gen_calls,       \* times model.generate was invoked in this call
    warnings,        \* the warnings logged in this call
    completion_res,  \* the Completion returned by text_completion
    chat_completion, \* the ChatCompletion returned by chat
    emb_input,       \* embeddings: input
    embedding_res,   \* the CreateEmbeddingResponse returned by embeddings
    server,          \* the server: settings.APP_TYPE and its requests
    error            \* the ValueError raised to the caller ("" for none)

vars ==
    <<self, pc, entry, messages, stop_arg, caller_stop, model, max_tokens,
      max_length_kw, kwargs, gen_kwargs, prompt, stop, total_stop_words, has_criteria, stop_words_ids,
      stop_reason, matched, consulted, input_ids, max_length, outputs, gen_calls, warnings,
      completion_res, chat_completion, emb_input, embedding_res, error, server>>

\* The variables of the adapter and of a direct call to it.
call_vars ==
    <<self, pc, entry, messages, stop_arg, caller_stop, model, max_tokens,
      max_length_kw, kwargs, gen_kwargs, prompt, stop, total_stop_words, has_criteria,
      stop_words_ids, stop_reason, matched, consulted, input_ids, max_length,
      outputs, gen_calls, warnings, completion_res, chat_completion, emb_input,
      embedding_res, error>>

NoUsage == [total_tokens |-> 0, prompt_tokens |-> 0, completion_tokens |-> 0]

\* No Completion / ChatCompletion returned.
NoCompletion ==
    [present |-> FALSE, model |-> "", n_choices |-> 0, index |-> 0,
     finish_reason |-> "", text |-> <<>>, usage |-> NoUsage]

NoChatCompletion ==
    [present |-> FALSE, model |-> "", n_choices |-> 0, index |-> 0,
     finish_reason |-> "", role |-> "", content |-> <<>>, usage |-> NoUsage]

\* The variables of one call when no call is in progress.
CallIdle ==
    /\ pc = "idle" /\ entry = "" /\ messages = <<>> /\ stop_arg = StopList(<<>>)
    /\ caller_stop = StopList(<<>>)
    /\ model = "" /\ max_tokens = NoneInt /\ max_length_kw = NoneInt
    /\ kwargs = NoKwargs /\ gen_kwargs = NoKwargs
    /\ prompt = <<>> /\ stop = StopList(<<>>) /\ total_stop_words = <<>>
    /\ has_criteria = FALSE /\ stop_words_ids = <<>>
    /\ stop_reason = "" /\ matched = <<>>
    /\ consulted = 0 /\ input_ids = <<>> /\ max_length = 0 /\ outputs = <<>>
    /\ gen_calls = 0 /\ warnings = {}
    /\ completion_res = NoCompletion /\ chat_completion = NoChatCompletion
    /\ emb_input = OneText(<<>>) /\ embedding_res = NoEmbeddings
    /\ error = ""

\* The requests of the server.
Requests == 1..MaxRequests

\* A request that has not arrived.
NoRequest ==
    [pc |-> "none", input |-> OneText(<<>>), model |-> "", status |-> 0,
     response |-> NoEmbeddings]

\* The server with the given settings.APP_TYPE before any request arrives.
ServerIdle(app_type) ==
    server = [app_type |-> app_type, requests |-> [r \in Requests |-> NoRequest]]

Init == self \in Adapters /\ CallIdle /\ ServerIdle("llm")

(***************************************************************************)
(* Actions.                                                                *)
(***************************************************************************)
\* EmptyPrompt that never finds the prompt empty.
EmptyPrompt_Never(p) == FALSE

\* hf.py:201  `not prompt`; hf.py:129 `len(prompt) == 0`; hf.py:158.
EmptyPrompt(p) == Len(p) = 0

\* hf.py:117  `len(messages) == 0`
EmptyMessages(msgs) == Len(msgs) = 0

\* A ValueError raised to the caller: nothing after the raise runs.
RaiseEarly(msg, p, chat_stop, chat_warnings) ==
    /\ pc' = "raised" /\ error' = msg
    /\ prompt' = p /\ stop' = chat_stop /\ warnings' = chat_warnings
    /\ UNCHANGED <<self, total_stop_words, has_criteria, stop_words_ids, stop_reason,
                   matched, consulted, input_ids, max_length, gen_kwargs, outputs,
                   gen_calls, completion_res, chat_completion>>

\* hf.py:200-261  text_completion up to the call of self.model.generate.
EnterTextCompletion(p, mdl, chat_stop, stp, mt, ml, kw, chat_warnings) ==
    IF EmptyPrompt(p)
    THEN RaiseEarly("prompt empty", p, chat_stop, chat_warnings)
    ELSE LET words == TotalStopWords(self.stop_words, stp)
             ids   == Encode(p)
             first == InitialMaxLength(mt, ml, self.default_max_tokens)
         IN  /\ pc' = "generating" /\ error' = ""
             /\ self' = [self EXCEPT
                            !.stop_words = StaticStopWordsAfter(self.stop_words, stp)]
             /\ prompt' = p /\ stop' = chat_stop
             /\ total_stop_words' = words
             /\ has_criteria' = (Len(words) > 0)
             /\ stop_words_ids' = StopWordsIds(words)
             /\ stop_reason' = NewStopState.stop_reason
             /\ matched' = NewStopState.matched
             /\ consulted' = 0
             /\ input_ids' = ids
             /\ max_length' = EffectiveMaxLength(Len(ids), first)
             /\ gen_kwargs' = GenerateKwargs(kw, mt, ml,
                                             EffectiveMaxLength(Len(ids), first),
                                             Len(words) > 0)
             /\ outputs' = ids
             /\ gen_calls' = gen_calls + 1
             /\ warnings' = chat_warnings
                   \cup (IF mdl # self.model_name THEN {"model"} ELSE {})
                   \cup (IF NeedsWidening(Len(ids), first) THEN {"max_length"} ELSE {})
             /\ UNCHANGED <<completion_res, chat_completion>>

\* hf.py:197  a caller invokes text_completion.
TextCompletion(p, stp, mdl, mt, ml, kw) ==
    /\ pc = "idle"
    /\ stp.shape # "other"
    /\ entry' = "text_completion" /\ messages' = <<>> /\ stop_arg' = stp
    /\ model' = mdl /\ max_tokens' = mt /\ max_length_kw' = ml /\ kwargs' = kw
    /\ caller_stop' = stp
    /\ EnterTextCompletion(p, mdl, StopList(<<>>), stp, mt, ml, kw, {})
    /\ UNCHANGED <<emb_input, embedding_res, server>>

\* The stop arguments a chat call is given: with a chat template the stop
\* argument reaches text_completion as it is, and is a string or a list of
\* non-empty strings.
ChatStopInDomain(template, stp) ==
    IF template = "none" THEN TRUE
    ELSE IF stp.shape = "list" THEN NonEmpty(stp.items) = stp.items
    ELSE stp.shape = "str"

\* hf.py:114-164  a caller invokes chat: the prompt and the stop words are
\* prepared and text_completion is entered.
Chat(msgs, stp, mdl, mt, ml, kw) ==
    /\ pc = "idle"
    /\ ChatStopInDomain(self.chat_template, stp)
    /\ entry' = "chat" /\ messages' = msgs /\ stop_arg' = stp
    /\ model' = mdl /\ max_tokens' = mt /\ max_length_kw' = ml /\ kwargs' = kw
    /\ UNCHANGED <<emb_input, embedding_res, server>>
    /\ IF EmptyMessages(msgs)
       THEN RaiseEarly("messages empty", <<>>, stp, {}) /\ caller_stop' = stp
       ELSE IF self.chat_template = "none"
       THEN IF EmptyPrompt(FallbackBody(msgs))
            THEN /\ RaiseEarly("prompt empty, no content in messages", <<>>, stp, {})
                 /\ caller_stop' = stp
            ELSE \E order \in RoleOrders(RolesOf(msgs)) :
                    LET chat_stop == FallbackStop(stp, order)
                        logged    == IF stp.shape = "other" THEN {"stop"} ELSE {}
                    IN  /\ EnterTextCompletion(FallbackBody(msgs) \o AssistantCue, mdl,
                                               chat_stop, chat_stop, mt, ml, kw, logged)
                        /\ caller_stop' = CallerStopAfterExtend(stp, order)
       ELSE IF EmptyPrompt(apply_chat_template(self.chat_template, msgs))
            THEN /\ RaiseEarly("prompt empty, no content in messages", <<>>, stp, {})
                 /\ caller_stop' = stp
            ELSE /\ EnterTextCompletion(apply_chat_template(self.chat_template, msgs),
                                        mdl, stp, stp, mt, ml, kw, {})
                 /\ caller_stop' = stp

\* The tokens the model may emit next: any token of GenTokens for the first
\* MaxVaried steps; afterwards the end-of-sequence token, or the filler token
\* when the model has none.
NextTokens ==
    IF Len(outputs) - Len(input_ids) < MaxVaried
    THEN GenTokens(self.has_eos)
    ELSE IF self.has_eos THEN {EosTokenId} ELSE {FillerToken}

\* hf.py:261  one step of self.model.generate: the model emits a token, the
\* stopping criteria are consulted with the sequence so far, and generation
\* ends on a match, on the end-of-sequence token or at max_length.
GenerateStep(tok) ==
    LET ids == Append(outputs, tok)
        hit == IF has_criteria
               THEN StopMatch(total_stop_words, stop_words_ids, ids) ELSE 0
    IN  /\ pc = "generating"
        /\ tok \in NextTokens
        /\ outputs' = ids
        /\ consulted' = IF has_criteria THEN consulted + 1 ELSE consulted
        /\ stop_reason' = IF hit > 0 THEN "stop" ELSE stop_reason
        /\ matched' = IF hit > 0 THEN total_stop_words[hit] ELSE matched
        /\ pc' = IF \/ hit > 0
                    \/ (self.has_eos /\ tok = EosTokenId)
                    \/ Len(ids) >= max_length
                 THEN "generated" ELSE "generating"
        /\ UNCHANGED <<self, entry, messages, stop_arg, caller_stop, model, max_tokens,
                       max_length_kw, kwargs, gen_kwargs, prompt, stop, total_stop_words,
                       has_criteria, stop_words_ids, input_ids, max_length,
                       gen_calls, warnings,
                       completion_res, chat_completion, emb_input,
                       embedding_res, error, server>>

\* CompletionOf that reports the requested model name.
CompletionOf_RequestedModel ==
    [present       |-> TRUE,
     model         |-> model,
     n_choices     |-> 1,
     index         |-> 0,
     finish_reason |-> FinishReason(has_criteria, stop_reason, self.has_eos, outputs),
     text          |-> remove_echo_text(prompt, Decode(outputs), self.has_eos),
     usage         |-> Usage(Len(outputs), Len(input_ids))]

\* hf.py:262-288  the Completion built from what generate returned.
CompletionOf ==
    [present       |-> TRUE,
     model         |-> self.model_name,
     n_choices     |-> 1,
     index         |-> 0,
     finish_reason |-> FinishReason(has_criteria, stop_reason, self.has_eos, outputs),
     text          |-> remove_echo_text(prompt, Decode(outputs), self.has_eos),
     usage         |-> Usage(Len(outputs), Len(input_ids))]

\* hf.py:165-195  the ChatCompletion built from a Completion.
ChatCompletionOf(res) ==
    [present       |-> TRUE,
     model         |-> res.model,
     n_choices     |-> res.n_choices,
     index         |-> res.index,
     finish_reason |-> res.finish_reason,
     role          |-> "assistant",
     content       |-> ChatTrim(res.text, IterStop(stop)),
     usage         |-> res.usage]

\* hf.py:262-288, and hf.py:165-195 in a chat call: generate has returned,
\* the record is built and returned to the caller.
Finish ==
    /\ pc = "generated"
    /\ pc' = "done"
    /\ completion_res' = CompletionOf
    /\ chat_completion' = IF entry = "chat" THEN ChatCompletionOf(CompletionOf)
                          ELSE NoChatCompletion
    /\ UNCHANGED <<self, entry, messages, stop_arg, caller_stop, model, max_tokens,
                   max_length_kw, kwargs, gen_kwargs, prompt, stop, total_stop_words, has_criteria,
                   stop_words_ids, stop_reason, matched, consulted, input_ids,
                   max_length,
                   outputs, gen_calls, warnings, emb_input, embedding_res, error,
                   server>>

\* hf.py:290-335  a caller invokes embeddings; the response is returned. The
\* requested model name is not looked at.
Embeddings(inp, mdl) ==
    /\ pc = "idle"
    /\ pc' = "embedded" /\ entry' = "embeddings" /\ model' = mdl
    /\ emb_input' = inp
    /\ embedding_res' = EmbeddingsOf(self.model_name, inp)
    /\ UNCHANGED <<self, messages, stop_arg, caller_stop, max_tokens, max_length_kw, kwargs,
                   gen_kwargs, prompt, stop, total_stop_words, has_criteria,
                   stop_words_ids, stop_reason, matched, consulted, input_ids,
                   max_length, outputs, gen_calls, warnings, completion_res,
                   chat_completion, error, server>>

\* The call has returned or raised; its locals are gone and the adapter is
\* ready for the next call.
Return ==
    /\ pc \in {"done", "raised", "embedded"}
    /\ pc' = "idle" /\ entry' = "" /\ messages' = <<>> /\ stop_arg' = StopList(<<>>)
    /\ caller_stop' = StopList(<<>>)
    /\ model' = "" /\ max_tokens' = NoneInt /\ max_length_kw' = NoneInt
    /\ kwargs' = NoKwargs /\ gen_kwargs' = NoKwargs
    /\ prompt' = <<>> /\ stop' = StopList(<<>>) /\ total_stop_words' = <<>>
    /\ has_criteria' = FALSE /\ stop_words_ids' = <<>>
    /\ stop_reason' = "" /\ matched' = <<>>
    /\ consulted' = 0 /\ input_ids' = <<>> /\ max_length' = 0 /\ outputs' = <<>>
    /\ gen_calls' = 0 /\ warnings' = {}
    /\ completion_res' = NoCompletion /\ chat_completion' = NoChatCompletion
    /\ emb_input' = OneText(<<>>) /\ embedding_res' = NoEmbeddings
    /\ error' = ""
    /\ UNCHANGED <<self, server>>

Next ==
    \/ \E c \in ChatCalls :
          Chat(c[1][1], c[1][2][1], c[1][2][2], c[1][2][3][1], c[1][2][3][2], c[2])
    \/ \E c \in TextCompletionCalls :
          TextCompletion(c[1][1], c[1][2][1], c[1][2][2], c[1][2][3][1],
                         c[1][2][3][2], c[2])
    \/ \E tok \in 1..Len(Vocab) : GenerateStep(tok)
    \/ Finish
    \/ \E inp \in EmbeddingInputs, mdl \in ModelValues : Embeddings(inp, mdl)
    \/ Return

Spec == Init /\ [][Next]_vars

(***************************************************************************)
(* The server's embeddings endpoint                                        *)
(* (src/languru/server/api/v1/embeddings.py). Every request is a coroutine *)
(* on the one event loop: it runs without interruption from one await to   *)
(* the next. pyassorted's run_func hands a function that is no coroutine   *)
(* function to the event loop's default thread-pool executor and awaits    *)
(* its result; the pool has more worker threads than MaxRequests.          *)
(***************************************************************************)
\* settings.APP_TYPE
AppTypes == {"llm", "agent", "none"}

\* The request bodies: an input and a model name.
RequestBodies == {OneText(<<"a">>), TextList(<<<<"a">>, <<"a", "a", "b">>>>)} \X ModelValues

\* ActionBase.get_model_name: the deployed model's name for a name the
\* adapter serves; ModelNotFound otherwise ("" stands for the exception).
get_model_name(adapter, name) == IF name = adapter.model_name THEN adapter.model_name ELSE ""

\* The server's requests with request r replaced.
WithRequest(r, req) == [server EXCEPT !.requests[r] = req]

\* embeddings.py:116-133  a POST /embeddings arrives and its coroutine is
\* scheduled.
Arrive(r, body) ==
    /\ server.requests[r].pc = "none"
    /\ server' = WithRequest(r, [NoRequest EXCEPT !.pc = "arrived",
                                                  !.input = body[1],
                                                  !.model = body[2]])
    /\ UNCHANGED call_vars

\* embeddings.py:62-81  handle_llm up to its await: the model name is
\* resolved and action.embeddings is handed to run_func, or the request is
\* answered 404.
HandleLlm(r) ==
    LET req  == server.requests[r]
        name == get_model_name(self, req.model)
    IN  IF name = ""
        THEN server' = WithRequest(r, [req EXCEPT !.pc = "responded", !.status = 404])
        ELSE server' = WithRequest(r, [req EXCEPT !.pc = "submitted", !.model = name])

\* embeddings.py:84-112  handle_agent: no model is registered under the name
\* (404), or the request is posted to a registered server and its response is
\* returned; the adapter of this process is not called.
HandleAgent(r) ==
    \E found \in BOOLEAN :
        server' = WithRequest(r, [server.requests[r] EXCEPT
                                      !.pc = "responded",
                                      !.status = IF found THEN 200 ELSE 404])

\* embeddings.py:27-60  handle_request: the coroutine of request r runs to its
\* first await, or to its end.
HandleRequest(r) ==
    /\ server.requests[r].pc = "arrived"
    /\ IF server.app_type = "llm" THEN HandleLlm(r)
       ELSE IF server.app_type = "agent" THEN HandleAgent(r)
       ELSE server' = WithRequest(r, [server.requests[r] EXCEPT
                                         !.pc = "responded", !.status = 500])
    /\ UNCHANGED call_vars

\* embeddings.py:79-81  a worker thread of the executor enters
\* action.embeddings for request r.
StartEmbeddings(r) ==
    /\ server.requests[r].pc = "submitted"
    /\ server' = WithRequest(r, [server.requests[r] EXCEPT !.pc = "running"])
    /\ UNCHANGED call_vars

\* embeddings.py:79-81  action.embeddings returns in its worker thread.
FinishEmbeddings(r) ==
    /\ server.requests[r].pc = "running"
    /\ server' = WithRequest(r, [server.requests[r] EXCEPT
                                    !.pc = "finished",
                                    !.response = EmbeddingsOf(self.model_name,
                                                              server.requests[r].input)])
    /\ UNCHANGED call_vars

\* embeddings.py:79-82  the await of run_func completes and the response is
\* returned.
Respond(r) ==
    /\ server.requests[r].pc = "finished"
    /\ server' = WithRequest(r, [server.requests[r] EXCEPT
                                    !.pc = "responded", !.status = 200])
    /\ UNCHANGED call_vars

ServerInit == self \in Adapters /\ CallIdle /\ \E t \in AppTypes : ServerIdle(t)

ServerNext ==
    \/ \E r \in Requests, body \in RequestBodies : Arrive(r, body)
    \/ \E r \in Requests : HandleRequest(r)
    \/ \E r \in Requests : StartEmbeddings(r)
    \/ \E r \in Requests : FinishEmbeddings(r)
    \/ \E r \in Requests : Respond(r)

ServerSpec == ServerInit /\ [][ServerNext]_vars

(***************************************************************************)
(* Properties.                                                             *)
(***************************************************************************)
\* A generation call has been made in the current call.
Generating == pc \in {"generating", "generated", "done"}

\* The prompt's token length, and the budget the caller requested.
PromptTokens == Len(input_ids)
RequestedBudget == InitialMaxLength(max_tokens, max_length_kw, self.default_max_tokens)

\* The tokens generated so far.
NewTokens == SubSeq(outputs, Len(input_ids) + 1, Len(outputs))

\* C1: the finish_reason of every returned Completion is the criteria
\* object's reason when it recorded a match; otherwise "stop" when the last
\* output token is the end-of-sequence token; otherwise "length" -- whether
\* or not a criteria object was attached to the call.
C1_FinishReasonOrder ==
    pc = "done" =>
        completion_res.finish_reason =
            IF stop_reason # "" THEN stop_reason
            ELSE IF self.has_eos /\ outputs[Len(outputs)] = EosTokenId THEN "stop"
            ELSE "length"

\* C2: in a call with a non-empty stop set the criteria object is consulted
\* after every generation step; at the first step whose decoded tail contains
\* a stop string it records that string and halts generation, nothing is
\* generated and it is not consulted afterwards, and finish_reason is
\* "stop"; when no step matches, generation ends only at max_length or on
\* the end-of-sequence token. (Every state of a call is checked, so "the
\* sequence one token shorter did not match" covers every earlier step.)
C2_StopMatcherHalts ==
    (Generating /\ has_criteria) =>
        /\ consulted = Len(NewTokens)
        /\ Len(NewTokens) >= 2 =>
              StopMatch(total_stop_words, stop_words_ids,
                        SubSeq(outputs, 1, Len(outputs) - 1)) = 0
        /\ stop_reason = "stop" =>
              /\ pc # "generating"
              /\ \E i \in 1..Len(total_stop_words) :
                    /\ matched = total_stop_words[i]
                    /\ WordMatches(matched, stop_words_ids[i], outputs)
        /\ (stop_reason = "" /\ consulted > 0) =>
              StopMatch(total_stop_words, stop_words_ids, outputs) = 0
        /\ (stop_reason = "" /\ pc # "generating") =>
              \/ Len(outputs) >= max_length
              \/ (self.has_eos /\ outputs[Len(outputs)] = EosTokenId)
        /\ pc = "generating" => Len(outputs) < max_length
        /\ (pc = "done" /\ stop_reason = "stop") => completion_res.finish_reason = "stop"

\* C2 witness: a call returned after the criteria object halted generation at
\* its second consultation or later, before max_length.
C2_Witness ==
    /\ pc = "done" /\ has_criteria /\ stop_reason = "stop"
    /\ consulted >= 2 /\ Len(outputs) < max_length
    /\ completion_res.finish_reason = "stop"

\* C3: the max_length handed to generate is P + 20 when the prompt's token
\* length P is at least the requested budget M, and M when P < M
\* (P = 2048, M = 2000 gives 2068).
C3_EffectiveMaxLength ==
    /\ Generating =>
          max_length = IF PromptTokens >= RequestedBudget
                       THEN PromptTokens + 20
                       ELSE RequestedBudget
    /\ Generating => ("max_length" \in warnings <=> PromptTokens >= RequestedBudget)
    /\ EffectiveMaxLength(2048, 2000) = 2068

\* C3 witness: a call whose prompt was longer than the requested budget ran
\* to the widened max_length.
C3_Witness ==
    /\ pc = "done" /\ PromptTokens > RequestedBudget
    /\ max_tokens.has /\ max_length_kw.has
    /\ Len(outputs) = PromptTokens + 20

\* C4 as stated: the max_length handed to generate leaves at least 20 tokens
\* of room, whatever the caller asked for.
C4_TwentyTokensOfRoom == Generating => max_length - PromptTokens >= 20

\* C4 as amended: the max_length handed to generate leaves at least one token
\* of room; the room is 20 when the prompt is as long as the requested budget
\* or longer, and the requested budget less the prompt length otherwise.
C4_RoomForGeneration ==
    Generating =>
        /\ max_length - PromptTokens >= 1
        /\ "max_length" \in warnings => max_length - PromptTokens = Slack
        /\ "max_length" \notin warnings =>
              max_length - PromptTokens = RequestedBudget - PromptTokens

\* C4 witness: a call with less than 20 tokens of room ran to max_length.
C4_Witness ==
    /\ pc = "done" /\ max_length - PromptTokens < Slack
    /\ "max_length" \notin warnings
    /\ Len(outputs) = max_length

\* C5: the usage of every returned record has completion_tokens =
\* total_tokens - prompt_tokens and total_tokens >= prompt_tokens, with
\* prompt_tokens the tokenized prompt's length and total_tokens the length of
\* the sequence generate returned; chat copies the same usage.
C5_TokenAccounting ==
    pc = "done" =>
        LET u == completion_res.usage
        IN  /\ u.prompt_tokens = Len(Encode(prompt))
            /\ u.total_tokens = Len(outputs)
            /\ u.completion_tokens = u.total_tokens - u.prompt_tokens
            /\ u.total_tokens >= u.prompt_tokens
            /\ u.completion_tokens >= 0
            /\ entry = "chat" => chat_completion.usage = u

\* C5 witness: a chat call returned a record that counts several completion
\* tokens.
C5_Witness ==
    /\ pc = "done" /\ entry = "chat" /\ chat_completion.present
    /\ chat_completion.usage.completion_tokens >= 2
    /\ chat_completion.usage.prompt_tokens >= 2

\* The elements of a sequence, as a set.
Range(seq) == {seq[i] : i \in 1..Len(seq)}

\* A chat call without a chat template is in progress.
FallbackChat == pc # "idle" /\ entry = "chat" /\ self.chat_template = "none"

\* No message of the call has content.
NoContent == \A i \in 1..Len(messages) : ~messages[i].has

\* C6: in chat without a chat template the stop set passed to completion is
\* exactly the caller's stop strings (one string is one stop string, a list
\* gives its elements, any other shape gives nothing and the call proceeds,
\* empty strings dropped) together with "\n{role}:" for every role of the
\* messages, contentless ones included, and for assistant, bot, user, system.
C6_FallbackStopSet ==
    LET caller ==
            IF stop_arg.shape = "str" THEN {stop_arg.items[1]} \ {<<>>}
            ELSE IF stop_arg.shape = "list" THEN Range(stop_arg.items) \ {<<>>}
            ELSE {}
        roles == {messages[i].role : i \in 1..Len(messages)}
                    \cup {"assistant", "bot", "user", "system"}
    IN  /\ (FallbackChat /\ Generating) =>
              /\ stop.shape = "list"
              /\ Range(stop.items) = caller \cup {<<"\n", r, ":">> : r \in roles}
              /\ total_stop_words = self.stop_words.items \o stop.items
        /\ (FallbackChat /\ pc = "raised") => (messages = <<>> \/ NoContent)

\* C6 witness: a chat call with a stop argument of an unsupported shape and
\* a contentless message of a role outside the baseline returned.
C6_Witness ==
    /\ FallbackChat /\ pc = "done" /\ stop_arg.shape = "other"
    /\ "stop" \in warnings
    /\ \E i \in 1..Len(messages) :
          ~messages[i].has /\ messages[i].role \notin BaselineRoles

\* The stop words of S that are right-aligned in text t.
RightAligned(t, S) == {i \in 1..Len(S) : Len(S[i]) > 0 /\ EndsWith(t, S[i])}

C8_TrimIdempotent ==
    (pc = "done" /\ entry = "chat") =>
        ChatTrim(chat_completion.content, IterStop(stop)) = chat_completion.content

\* C8 as amended: applying the chat trim again removes at most one more
\* right-aligned stop word, and changes nothing exactly when no stop word is
\* right-aligned in the content.
C8_TrimOnceMore ==
    (pc = "done" /\ entry = "chat") =>
        LET c == chat_completion.content
            S == IterStop(stop)
            r == ChatTrim(c, S)
        IN  /\ (r = c) <=> (RightAligned(c, S) = {})
            /\ r # c => \E i \in RightAligned(c, S) : r \o S[i] = c

\* C8 witness: a chat call returned a content that a second trim shortens.
C8_Witness ==
    /\ pc = "done" /\ entry = "chat"
    /\ completion_res.text # chat_completion.content
    /\ ChatTrim(chat_completion.content, IterStop(stop)) # chat_completion.content

\* C9: chat with no messages, chat whose messages contribute no content or
\* whose template renders nothing, and text_completion with an empty prompt
\* raise to the caller; generate is not invoked, no record is returned, and
\* the call is not made again.
C9_EmptyInputFatal ==
    /\ (pc # "idle" /\ entry = "chat" /\ messages = <<>>) => pc = "raised"
    /\ (FallbackChat /\ NoContent) => pc = "raised"
    /\ (pc # "idle" /\ entry = "chat" /\ self.chat_template # "none"
          /\ apply_chat_template(self.chat_template, messages) = <<>>) => pc = "raised"
    /\ (pc # "idle" /\ entry = "text_completion" /\ prompt = <<>>) => pc = "raised"
    /\ pc = "raised" =>
          /\ error # "" /\ gen_calls = 0 /\ outputs = <<>> /\ consulted = 0
          /\ ~completion_res.present /\ ~chat_completion.present
    /\ Generating => gen_calls = 1

\* C9 witness: a chat call whose messages all lack content raised.
C9_Witness ==
    /\ pc = "raised" /\ FallbackChat /\ messages # <<>> /\ NoContent
    /\ gen_calls = 0

\* C10: a requested model name other than the loaded one is logged and is no
\* error: a call raises only for empty input, generate runs once, and the
\* returned record carries the loaded model's name.
C10_ModelMismatchProceeds ==
    /\ pc = "done" =>
          /\ completion_res.model = self.model_name
          /\ entry = "chat" => chat_completion.model = self.model_name
          /\ gen_calls = 1
    /\ Generating => (("model" \in warnings) <=> (model # self.model_name))
    /\ pc = "raised" =>
          \/ entry = "text_completion" /\ prompt = <<>>
          \/ entry = "chat" /\ (messages = <<>> \/ NoContent)
          \/ entry = "chat" /\ self.chat_template # "none"
                /\ apply_chat_template(self.chat_template, messages) = <<>>

\* C10 witness: a chat call that asked for another model returned.
C10_Witness ==
    /\ pc = "done" /\ entry = "chat" /\ model # self.model_name
    /\ "model" \in warnings /\ chat_completion.present

\* C11: none of best_of, echo, n, frequency_penalty, presence_penalty,
\* stream, logprobs and max_tokens is among the keyword arguments handed to
\* the generation call, whatever the caller supplied for them in
\* text_completion or chat; every other keyword argument is handed on as it
\* was given; and the returned record has exactly one choice, with index 0,
\* whatever the value of n.
C11_IgnoredParamsDropped ==
    /\ Generating =>
          /\ (DOMAIN gen_kwargs)
                \cap {"best_of", "echo", "n", "frequency_penalty",
                      "presence_penalty", "stream", "logprobs", "max_tokens"} = {}
          /\ "max_length" \in DOMAIN gen_kwargs /\ gen_kwargs["max_length"] = max_length
          /\ \A k \in (DOMAIN kwargs) \ Range(IgnoredParams) :
                k \in DOMAIN gen_kwargs /\ gen_kwargs[k] = kwargs[k]
    /\ pc = "done" =>
          /\ completion_res.n_choices = 1 /\ completion_res.index = 0
          /\ entry = "chat" =>
                chat_completion.n_choices = 1 /\ chat_completion.index = 0

\* C11 witness: a chat call given n > 1, max_tokens, the other ignored
\* parameters and one parameter that is handed on returned one choice.
C11_Witness ==
    /\ pc = "done" /\ entry = "chat" /\ max_tokens.has
    /\ "n" \in DOMAIN kwargs /\ kwargs["n"] > 1 /\ "echo" \in DOMAIN kwargs
    /\ "temperature" \in DOMAIN gen_kwargs
    /\ chat_completion.n_choices = 1 /\ chat_completion.index = 0

\* The vector of one text embedded on its own, in a batch without padding.
PooledAlone(text) ==
    LET rows == <<Truncate(Encode(text))>>
    IN  mean_pooling(LastHiddenState(PaddedIds(rows)), AttentionMask(rows))[1]

\* C12: embeddings returns one data entry for each input text, in input
\* order -- the i-th entry (counted from 0) carries index i and the vector of
\* the i-th text; all vectors of a response have the same length; and
\* usage.prompt_tokens = usage.total_tokens = the sequence length of the
\* padded batch, which is the token length of the longest input as
\* tokenized, and not the sum of the inputs' lengths.
C12_EmbeddingsShape ==
    pc = "embedded" =>
        LET data == embedding_res.data
            lens == {Len(Truncate(Encode(emb_input.texts[i]))) :
                        i \in 1..Len(emb_input.texts)}
        IN  /\ embedding_res.present
            /\ Len(data) = Len(emb_input.texts)
            /\ \A i \in 1..Len(data) :
                  /\ data[i].index = i - 1
                  /\ data[i].embedding = PooledAlone(emb_input.texts[i])
            /\ \A i, j \in 1..Len(data) :
                  Len(data[i].embedding) = Len(data[j].embedding)
            /\ embedding_res.usage.prompt_tokens = embedding_res.usage.total_tokens
            /\ embedding_res.usage.total_tokens \in lens
            /\ \A n \in lens : n <= embedding_res.usage.total_tokens

\* C12 witness: an embeddings call on two texts of different token lengths
\* returned two different vectors and counts fewer tokens than the two texts
\* have together.
C12_Witness ==
    /\ pc = "embedded" /\ Len(embedding_res.data) = 2
    /\ Len(Encode(emb_input.texts[1])) < Len(Encode(emb_input.texts[2]))
    /\ embedding_res.data[1].embedding # embedding_res.data[2].embedding
    /\ embedding_res.usage.total_tokens
          < Len(Encode(emb_input.texts[1])) + Len(Encode(emb_input.texts[2]))
    /\ embedding_res.usage.total_tokens = Len(Encode(emb_input.texts[2]))

\* The requests whose invocation of the adapter's embeddings operation is
\* running.
InFlight == {r \in Requests : server.requests[r].pc = "running"}

\* C13: in the server in LLM mode, at no time are two invocations of the
\* adapter's embeddings operation running on the adapter, however the
\* requests arrive.
C13_OneCallInFlight ==
    server.app_type = "llm" => Cardinality(InFlight) <= 1

\* The block of a message, "{role}:\n{content}", without the whitespace at its
\* end.
BlockOf(m) ==
    LET block == <<m.role, ":", "\n">> \o m.content
    IN  SubSeq(block, 1, Len(block) - TrailingSpaces(block))

\* The blocks of a sequence of messages, a blank line between two of them.
RECURSIVE JoinBlocks(_)
JoinBlocks(ms) ==
    IF Len(ms) = 0 THEN <<>>
    ELSE IF Len(ms) = 1 THEN BlockOf(ms[1])
    ELSE BlockOf(ms[1]) \o <<"\n", "\n">> \o JoinBlocks(Tail(ms))

\* C14: in chat without a chat template the prompt is the blocks
\* "{role}:\n{content}" of the messages whose content is not null, in the
\* order of the messages, none for a message without content, each stripped
\* of the whitespace around it and separated from the next by a blank line,
\* followed by the cue "\n\nassistant:\n"; so the prompt ends with
\* "\n\nassistant:\n".
C14_FallbackPromptShape ==
    (FallbackChat /\ Generating) =>
        /\ prompt = JoinBlocks(SelectSeq(messages, LAMBDA m : m.has))
                        \o <<"\n", "\n", "assistant", ":", "\n">>
        /\ EndsWith(prompt, <<"\n", "\n", "assistant", ":", "\n">>)
        /\ Len(prompt) > 5

\* C14 witness: a chat call without a chat template returned whose first
\* message has content that ends with whitespace and whose second message
\* has content too.
C14_Witness ==
    /\ FallbackChat /\ pc = "done" /\ Len(messages) = 2
    /\ messages[1].has /\ messages[2].has
    /\ TrailingSpaces(messages[1].content) > 0
    /\ Contains(prompt, <<"a", "\n", "\n", "user", ":">>)

\* C15: the text of every returned Completion is the decoded output with the
\* leftmost occurrence of the prompt, as the caller passed it, removed once
\* and any later occurrence kept, and the special tokens stripped afterwards.
C15_EchoRemovedOnce ==
    pc = "done" =>
        completion_res.text = remove_special_tokens(ReplaceFirst(Decode(outputs), prompt))

\* C16: calls are isolated. No step of a chat, text_completion or embeddings
\* call changes the adapter's model name or its static stop_words; the
\* caller's stop list is after the call what it was when it was passed; the
\* stop set of a call is the adapter's static stop words followed by the stop
\* words of this call; the criteria object of a call holds no stop reason
\* and no matched string before its first consultation; and a finish_reason
\* "stop" of a call with a criteria object comes with a stop string that
\* matches in the sequence of this call.
C16_CallsIsolated ==
    /\ [][self' = self]_vars
    /\ [](/\ pc # "idle" => caller_stop = stop_arg
          /\ Generating =>
                total_stop_words =
                    self.stop_words.items
                        \o (IF entry = "chat" THEN stop.items ELSE stop_arg.items)
          /\ (Generating /\ consulted = 0) => (stop_reason = "" /\ matched = <<>>)
          /\ (pc = "done" /\ has_criteria /\ completion_res.finish_reason = "stop") =>
                \E i \in 1..Len(total_stop_words) :
                    /\ matched = total_stop_words[i]
                    /\ WordMatches(matched, stop_words_ids[i], outputs))

\* C16 witness: a chat call on an adapter with static stop words, given a
\* list of stop words, appended the role stops to its own list, halted on a
\* stop match and returned.
C16_Witness ==
    /\ pc = "done" /\ FallbackChat
    /\ self.stop_words.items # <<>>
    /\ stop_arg.shape = "list" /\ stop_arg.items # <<>>
    /\ Len(stop.items) > Len(stop_arg.items)
    /\ caller_stop = stop_arg
    /\ stop_reason = "stop" /\ completion_res.finish_reason = "stop"

\* C17: in chat without a chat template the criteria object is consulted
\* with the prompt's tokens followed by the generated ones, and it halts a
\* call only when the stop string occurs in the generated text: whenever a
\* call was halted by a match, the text decoded from the generated tokens
\* contains the matched stop string.
C17_MatchOnlyInGenerated ==
    (FallbackChat /\ Generating /\ stop_reason = "stop") =>
        Contains(Decode(NewTokens), matched)

\* C18: in chat with a chat template the caller's stop argument reaches
\* completion as it was passed, no role stop is added, and for a stop
\* argument that is absent, a list of strings or one string, what the chat
\* trim removes from the completion text is nothing or one whole stop string
\* of the caller, never a part of one.
C18_TrimWholeStopString ==
    (pc = "done" /\ entry = "chat" /\ self.chat_template # "none") =>
        /\ stop = stop_arg
        /\ total_stop_words = self.stop_words.items \o stop_arg.items
        /\ \/ chat_completion.content = completion_res.text
           \/ \E i \in 1..Len(stop_arg.items) :
                 /\ Len(stop_arg.items[i]) > 0
                 /\ chat_completion.content \o stop_arg.items[i] = completion_res.text

====
